---- MODULE Spec2Model ----
(***************************************************************************)
(* Model of src/dxvk/dxvk_image.h: DxvkImage and DxvkImageView.            *)
(*                                                                         *)
(* Three specifications share the module:                                  *)
(*   Spec       object lifetime: images (allocated or wrapped), views,     *)
(*              the reference counts that tie them, the view handle table  *)
(*   SpecFrame  one constructed view driven by setRtBindingFrameId         *)
(*   SpecQuery  the pure geometry/layout queries of one image              *)
(***************************************************************************)
EXTENDS Integers, Naturals, Sequences, FiniteSets, TLC

VARIABLES
  images,       \* Spec: [ImageIds -> DxvkImage object or its absence]
  views,        \* Spec: [ViewIds -> DxvkImageView object or its absence]
  ownerRef,     \* Spec: [ImageIds -> BOOLEAN], the creator still holds its Rc<DxvkImage>
  destroyCalls, \* Spec: [ImageIds -> Nat], vkDestroyImage calls seen by the driver per image
  freeCalls,    \* Spec: [ImageIds -> Nat], memory releases seen by the allocator per image
  fview,        \* SpecFrame: the DxvkImageView under test
  ctorInfo,     \* SpecFrame: the create-info that was handed to fview's constructor
  pre,          \* SpecFrame: (m_rtBindingFrameId, m_rtBindingFrameCount) before the last call
  arg,          \* SpecFrame: frameId of the last call
  called,       \* SpecFrame: at least one call was made
  run,          \* SpecFrame: the calls so far as a run f, f+1, ... while they are one
  hist,         \* SpecFrame: per state-changing call, whether it was a +1 transition
                \* (pre, arg, called, run and hist are history variables: the code keeps
                \* none of them, the claims about call sequences are stated over them)
  qimg,         \* SpecQuery: the DxvkImage queried
  qview,        \* SpecQuery: a DxvkImageView on qimg
  q             \* SpecQuery: the last query, its arguments and its result

vars == <<images, views, ownerRef, destroyCalls, freeCalls,
          fview, ctorInfo, pre, arg, called, run, hist,
          qimg, qview, q>>

lifeVars  == <<images, views, ownerRef, destroyCalls, freeCalls>>
frameVars == <<fview, ctorInfo, pre, arg, called, run, hist>>
queryVars == <<qimg, qview, q>>

(***************************************************************************)
(* uint32_t.  TLC's integers are 32-bit signed, so a uint32_t is kept as   *)
(* its two 16-bit halves; the arithmetic below is arithmetic modulo 2^32.  *)
(***************************************************************************)
HalfMod == 65536

U32Of(n) == [hi |-> (n \div HalfMod) % HalfMod, lo |-> n % HalfMod]

U32Zero == U32Of(0)

\* x + 1 in uint32_t
U32Inc(x) ==
  IF x.lo + 1 < HalfMod
    THEN [hi |-> x.hi, lo |-> x.lo + 1]
    ELSE [hi |-> (x.hi + 1) % HalfMod, lo |-> 0]

\* x + n in uint32_t, n a small natural
RECURSIVE U32Add(_, _)
U32Add(x, n) == IF n = 0 THEN x ELSE U32Add(U32Inc(x), n - 1)

\* x >= n in uint32_t, n < 2^16
U32Geq(x, n) == x.hi > 0 \/ x.lo >= n

\* the uint32_t 2^32 - 1 - n, n < 2^16
U32Top(n) == [hi |-> HalfMod - 1, lo |-> HalfMod - 1 - n]

(***************************************************************************)
(* Bounds of the model.                                                    *)
(***************************************************************************)
MaxFrame  == 7   \* frame ids 0..MaxFrame are drawn, and the two largest uint32_t
MaxCalls  == 8   \* state-changing setRtBindingFrameId calls per behaviour
MaxRun    == 6   \* longest run f, f+1, ... that is followed call by call
MaxLevel  == 1   \* view create-info: minLevel in 0..MaxLevel
MaxLayer  == 1   \* view create-info: minLayer in 0..MaxLayer
MaxImage  == 1   \* images 0..MaxImage
MaxView   == 2   \* views 0..MaxView
MaxAlts   == 1   \* alternate view types asked of one view constructor
MaxExtent == 4   \* image width and height in 1..MaxExtent
MaxDepth  == 2   \* image depth in 1..MaxDepth
MaxMip    == 3   \* declared mip levels in 1..MaxMip
MaxLayout == 2   \* VkImageLayout values 0..MaxLayout: UNDEFINED, GENERAL, COLOR_ATTACHMENT_OPTIMAL

ImageIds == 0..MaxImage
ViewIds  == 0..MaxView
FrameIds == { U32Of(n) : n \in 0..MaxFrame } \cup { U32Top(1), U32Top(0) }

(***************************************************************************)
(* Vulkan enumerants the header names.                                     *)
(***************************************************************************)
VK_NULL_HANDLE == 0

VK_IMAGE_VIEW_TYPE_2D         == 1
VK_IMAGE_VIEW_TYPE_CUBE_ARRAY == 6

\* constexpr static uint32_t ViewCount = VK_IMAGE_VIEW_TYPE_CUBE_ARRAY + 1
ViewCount == VK_IMAGE_VIEW_TYPE_CUBE_ARRAY + 1
ViewTypes == 0..(ViewCount - 1)

VK_IMAGE_LAYOUT_GENERAL == 1

\* the frame count from which getRtBindingAsyncCompilationCompat answers true
AsyncFrames == 5

(***************************************************************************)
(* DxvkImage: construction, destruction, shared ownership.                 *)
(***************************************************************************)

\* VkImageType of the image: 1D, 2D, 3D
ImageTypes == 0..2

\* DxvkImageCreateInfo, the fields the model reads
ImageInfo(type, cube, format, extent, mipLevels, layout) ==
  [ type |-> type, cube |-> cube, format |-> format,
    extent |-> extent, mipLevels |-> mipLevels, layout |-> layout ]

\* the create-infos drawn for the images of SpecView: every dimension, with and
\* without the cube-compatible flag
ViewImageInfos ==
  { ImageInfo(t, c, 0, [width |-> 1, height |-> 1, depth |-> 1], 1, 0) :
      t \in ImageTypes, c \in BOOLEAN }

\* a 2D image of one texel: the image of SpecFrame and SpecSub
FrameImageInfo ==
  ImageInfo(1, FALSE, 0, [width |-> 1, height |-> 1, depth |-> 1], 1, 0)

\* the create-info of the images of Spec: a 2D image
LifeImageInfos == { FrameImageInfo }

\* no DxvkImage was constructed in this slot
NoImage ==
  [ state |-> "none", owning |-> FALSE, m_image |-> VK_NULL_HANDLE,
    m_memory |-> 0, m_info |-> FrameImageInfo, refs |-> 0 ]

\* DxvkImage(vkd, createInfo, memAlloc, memFlags): creates the native image and
\* binds a block of the allocator to it
DxvkImage_allocate(i, createInfo) ==
  [ state |-> "alive", owning |-> TRUE, m_image |-> i + 1,
    m_memory |-> i + 1, m_info |-> createInfo, refs |-> 0 ]

\* DxvkImage(vkd, info, image): records a native image that is managed elsewhere
DxvkImage_wrap(i, info, image) ==
  [ state |-> "alive", owning |-> FALSE, m_image |-> image,
    m_memory |-> 0, m_info |-> info, refs |-> 0 ]

\* a destructor that tears the native image down whoever owns it
Mut_dtorReleases(img) == 1

\* ~DxvkImage(): how often it destroys the native image and frees the memory
dtorReleases(img) == IF img.owning THEN 1 ELSE 0

\* Rc<T>: taking a reference
RcIncRef(img) == [img EXCEPT !.refs = @ + 1]

\* Rc<T>: dropping a reference; the object is deleted when the last one goes
RcDecRef(img) ==
  IF img.refs - 1 <= 0
    THEN [img EXCEPT !.refs = 0, !.state = "destroyed"]
    ELSE [img EXCEPT !.refs = @ - 1]

\* a view that keeps a plain pointer to its image
Mut_m_image_acquire(img) == img

\* Rc<DxvkImage> m_image: the view's member is a counted reference
m_image_acquire(img) == RcIncRef(img)

(***************************************************************************)
(* DxvkImage: geometry and layout queries.  Extents are kept as naturals:  *)
(* >> and max cannot leave the range of uint32_t.                          *)
(***************************************************************************)

\* x >> n for n below the width of uint32_t
Shr(x, n) == x \div (2 ^ n)

\* std::max
Max(a, b) == IF a >= b THEN a ELSE b

\* imageFormatInfo(format)->aspectMask of the format registry:
\* R8G8B8A8_UNORM is colour, D32_SFLOAT is depth, D24_UNORM_S8_UINT is depth
\* and stencil
formatAspectMask(format) ==
  CASE format = 37  -> 1
    [] format = 126 -> 2
    [] format = 129 -> 6
    [] OTHER        -> 0

\* operator == of VkExtent3D
ExtentEq(a, b) == a.width = b.width /\ a.height = b.height /\ a.depth = b.depth

\* mipLevelExtent that computes the height from the width
Mut_mipLevelExtent(img, level) ==
  [ width  |-> Max(1, Shr(img.m_info.extent.width,  level)),
    height |-> Max(1, Shr(img.m_info.extent.width,  level)),
    depth  |-> Max(1, Shr(img.m_info.extent.depth,  level)) ]

\* VkExtent3D mipLevelExtent(uint32_t level) const
mipLevelExtent(img, level) ==
  [ width  |-> Max(1, Shr(img.m_info.extent.width,  level)),
    height |-> Max(1, Shr(img.m_info.extent.height, level)),
    depth  |-> Max(1, Shr(img.m_info.extent.depth,  level)) ]

\* pickLayout that tests the requested layout in place of the image's
Mut_pickLayout(img, layout) ==
  IF layout = VK_IMAGE_LAYOUT_GENERAL THEN VK_IMAGE_LAYOUT_GENERAL ELSE layout

\* VkImageLayout pickLayout(VkImageLayout layout) const
pickLayout(img, layout) ==
  IF img.m_info.layout = VK_IMAGE_LAYOUT_GENERAL THEN VK_IMAGE_LAYOUT_GENERAL ELSE layout

\* isFullSubresource that accepts either condition
Mut_isFullSubresource(img, subresource, extent) ==
  \/ subresource.aspectMask = formatAspectMask(img.m_info.format)
  \/ ExtentEq(extent, mipLevelExtent(img, subresource.mipLevel))

\* bool isFullSubresource(const VkImageSubresourceLayers&, VkExtent3D) const
isFullSubresource(img, subresource, extent) ==
  /\ subresource.aspectMask = formatAspectMask(img.m_info.format)
  /\ ExtentEq(extent, mipLevelExtent(img, subresource.mipLevel))

(***************************************************************************)
(* DxvkImageView: construction and the handle table.                       *)
(***************************************************************************)

\* DxvkImageViewCreateInfo, the fields the model reads
ViewInfo(type, aspect, minLevel, numLevels, minLayer, numLayers) ==
  [ type |-> type, aspect |-> aspect, minLevel |-> minLevel,
    numLevels |-> numLevels, minLayer |-> minLayer, numLayers |-> numLayers ]

\* whether a view of type t can be made of an image: 1D and 1D_ARRAY of a 1D
\* image, 2D and 2D_ARRAY of a 2D image, CUBE and CUBE_ARRAY of a 2D image
\* created cube-compatible, 3D of a 3D image
ViewCompatible(imageInfo, t) ==
  \/ imageInfo.type = 0 /\ t \in {0, 4}
  \/ imageInfo.type = 1 /\ t \in {VK_IMAGE_VIEW_TYPE_2D, 5}
  \/ imageInfo.type = 1 /\ imageInfo.cube /\ t \in {3, VK_IMAGE_VIEW_TYPE_CUBE_ARRAY}
  \/ imageInfo.type = 2 /\ t = 2

\* the native view handle the driver returns for view v and type t
NativeView(v, t) == v * ViewCount + t + 1

\* no DxvkImageView was constructed in this slot
NoView ==
  [ state |-> "none", m_image |-> 0,
    m_info |-> ViewInfo(VK_IMAGE_VIEW_TYPE_2D, 0, 0, 0, 0, 0),
    m_views |-> [t \in ViewTypes |-> VK_NULL_HANDLE],
    m_rtBindingFrameId |-> U32Zero, m_rtBindingFrameCount |-> U32Zero,
    ctorType |-> VK_IMAGE_VIEW_TYPE_2D, requested |-> {} ]

\* DxvkImageView(vkd, image, info): the table starts empty, the default type and
\* the alternate types alts are built where the image admits them; the
\* construction fails when the default type cannot be built.  ctorType and
\* requested record what the constructor was asked for.
DxvkImageView_new(v, i, imageInfo, info, alts) ==
  [ state |-> IF ViewCompatible(imageInfo, info.type) THEN "alive" ELSE "failed",
    m_image |-> i,
    m_info |-> info,
    m_views |-> [t \in ViewTypes |->
                  IF t \in ({info.type} \cup alts) /\ ViewCompatible(imageInfo, t)
                    THEN NativeView(v, t) ELSE VK_NULL_HANDLE],
    m_rtBindingFrameId |-> U32Zero, m_rtBindingFrameCount |-> U32Zero,
    ctorType |-> info.type, requested |-> {info.type} \cup alts ]

\* const Rc<DxvkImage>& image() const
image(view) == view.m_image

\* VkImage imageHandle() const
imageHandle(imgs, view) == imgs[view.m_image].m_image

\* VkImageLayout DxvkImageView::pickLayout(VkImageLayout layout) const
viewPickLayout(imgs, view, layout) == pickLayout(imgs[view.m_image], layout)

(***************************************************************************)
(* DxvkImageView: frame tracking and the create-info queries.              *)
(***************************************************************************)

\* getRtBindingAsyncCompilationCompat with > in place of >=
Mut_getRtBindingAsyncCompilationCompat(view) ==
  U32Geq(view.m_rtBindingFrameCount, 6)

\* bool getRtBindingAsyncCompilationCompat() const
getRtBindingAsyncCompilationCompat(view) ==
  U32Geq(view.m_rtBindingFrameCount, 5)

\* setRtBindingFrameId that counts a repeated frame id as a new frame
Mut_setRtBindingFrameId(view, frameId) ==
  IF frameId = view.m_rtBindingFrameId \/ frameId = U32Inc(view.m_rtBindingFrameId)
    THEN [view EXCEPT !.m_rtBindingFrameCount = U32Inc(@),
                      !.m_rtBindingFrameId    = frameId]
    ELSE [view EXCEPT !.m_rtBindingFrameCount = U32Zero,
                      !.m_rtBindingFrameId    = frameId]

\* setRtBindingFrameId without the else branch that clears the count
Mut_setRtBindingFrameIdNoReset(view, frameId) ==
  IF frameId /= view.m_rtBindingFrameId
    THEN IF frameId = U32Inc(view.m_rtBindingFrameId)
           THEN [view EXCEPT !.m_rtBindingFrameCount = U32Inc(@),
                             !.m_rtBindingFrameId    = frameId]
           ELSE [view EXCEPT !.m_rtBindingFrameId    = frameId]
    ELSE view

\* void setRtBindingFrameId(uint32_t frameId)
setRtBindingFrameId(view, frameId) ==
  IF frameId /= view.m_rtBindingFrameId
    THEN IF frameId = U32Inc(view.m_rtBindingFrameId)
           THEN [view EXCEPT !.m_rtBindingFrameCount = U32Inc(@),
                             !.m_rtBindingFrameId    = frameId]
           ELSE [view EXCEPT !.m_rtBindingFrameCount = U32Zero,
                             !.m_rtBindingFrameId    = frameId]
    ELSE view

\* subresources with the level count and the layer count exchanged
Mut_subresources(view) ==
  [ aspectMask     |-> view.m_info.aspect,
    baseMipLevel   |-> view.m_info.minLevel,
    levelCount     |-> view.m_info.numLayers,
    baseArrayLayer |-> view.m_info.minLayer,
    layerCount     |-> view.m_info.numLevels ]

\* VkImageSubresourceRange subresources() const
subresources(view) ==
  [ aspectMask     |-> view.m_info.aspect,
    baseMipLevel   |-> view.m_info.minLevel,
    levelCount     |-> view.m_info.numLevels,
    baseArrayLayer |-> view.m_info.minLayer,
    layerCount     |-> view.m_info.numLayers ]

\* VkImageView handle(VkImageViewType viewType) const
handleOfType(view, viewType) == view.m_views[viewType]

\* handle() that always returns the 2D entry of the table
Mut_handle(view) == handleOfType(view, VK_IMAGE_VIEW_TYPE_2D)

\* VkImageView handle() const
handle(view) == handleOfType(view, view.m_info.type)

(***************************************************************************)
(* Spec: object lifetime.                                                  *)
(***************************************************************************)

\* the view create-info drawn in Spec: a 2D view
LifeViewInfos == { ViewInfo(VK_IMAGE_VIEW_TYPE_2D, 1, 0, 1, 0, 1) }

\* the view create-infos drawn in SpecView: every view type
ViewViewInfos == { ViewInfo(t, 1, 0, 1, 0, 1) : t \in ViewTypes }

\* the alternate view types a constructor may be asked for in SpecView: any
\* MaxAlts of them
AltRequests == { a \in SUBSET ViewTypes : Cardinality(a) <= MaxAlts }

\* the views that hold image i
ViewsOf(i) == { v \in ViewIds : views[v].state = "alive" /\ image(views[v]) = i }

InitLife ==
  /\ images = [i \in ImageIds |-> NoImage]
  /\ views = [v \in ViewIds |-> NoView]
  /\ ownerRef = [i \in ImageIds |-> FALSE]
  /\ destroyCalls = [i \in ImageIds |-> 0]
  /\ freeCalls = [i \in ImageIds |-> 0]

\* the last Rc<DxvkImage> to image i goes: ~DxvkImage runs when the count
\* reaches zero
ReleaseImage(i) ==
  LET after == RcDecRef(images[i]) IN
  /\ images' = [images EXCEPT ![i] = after]
  /\ IF after.state = "destroyed"
       THEN /\ destroyCalls' = [destroyCalls EXCEPT ![i] = @ + dtorReleases(images[i])]
            /\ freeCalls' = [freeCalls EXCEPT ![i] = @ + dtorReleases(images[i])]
       ELSE UNCHANGED <<destroyCalls, freeCalls>>

\* new DxvkImage(vkd, createInfo, memAlloc, memFlags), held by its creator
CreateImageAllocate(i, createInfo) ==
  /\ images[i].state = "none"
  /\ images' = [images EXCEPT ![i] = RcIncRef(DxvkImage_allocate(i, createInfo))]
  /\ ownerRef' = [ownerRef EXCEPT ![i] = TRUE]
  /\ UNCHANGED <<views, destroyCalls, freeCalls, frameVars, queryVars>>

\* new DxvkImage(vkd, info, image), held by its creator
CreateImageWrap(i, info) ==
  /\ images[i].state = "none"
  /\ images' = [images EXCEPT ![i] = RcIncRef(DxvkImage_wrap(i, info, i + 1))]
  /\ ownerRef' = [ownerRef EXCEPT ![i] = TRUE]
  /\ UNCHANGED <<views, destroyCalls, freeCalls, frameVars, queryVars>>

\* the creator (or the tracker above it) drops its reference to image i
DropOwnerRef(i) ==
  /\ ownerRef[i]
  /\ ownerRef' = [ownerRef EXCEPT ![i] = FALSE]
  /\ ReleaseImage(i)
  /\ UNCHANGED <<views, frameVars, queryVars>>

\* new DxvkImageView(vkd, image, info), from a reference to image i that the
\* creator or one of i's views holds
CreateView(v, i, info, alts) ==
  LET made == DxvkImageView_new(v, i, images[i].m_info, info, alts) IN
  /\ views[v].state = "none"
  /\ images[i].state = "alive"
  /\ ownerRef[i] \/ ViewsOf(i) /= {}
  /\ views' = [views EXCEPT ![v] = made]
  /\ images' = IF made.state = "alive"
                 THEN [images EXCEPT ![i] = m_image_acquire(@)]
                 ELSE images
  /\ UNCHANGED <<ownerRef, destroyCalls, freeCalls, frameVars, queryVars>>

\* ~DxvkImageView(): the native views are destroyed and m_image is released
DestroyView(v) ==
  /\ views[v].state = "alive"
  /\ views' = [views EXCEPT ![v].state = "destroyed",
                            ![v].m_views = [t \in ViewTypes |-> VK_NULL_HANDLE]]
  /\ ReleaseImage(image(views[v]))
  /\ UNCHANGED <<ownerRef, frameVars, queryVars>>

NextLife ==
  \/ \E i \in ImageIds, info \in LifeImageInfos : CreateImageAllocate(i, info)
  \/ \E i \in ImageIds, info \in LifeImageInfos : CreateImageWrap(i, info)
  \/ \E i \in ImageIds : DropOwnerRef(i)
  \/ \E v \in ViewIds, i \in ImageIds, info \in LifeViewInfos : CreateView(v, i, info, {})
  \/ \E v \in ViewIds : DestroyView(v)

\* SpecView: one image of any kind, one view of any type made of it
NextView ==
  \/ \E info \in ViewImageInfos : CreateImageAllocate(0, info)
  \/ \E info \in ViewImageInfos : CreateImageWrap(0, info)
  \/ DropOwnerRef(0)
  \/ \E info \in ViewViewInfos, alts \in AltRequests : CreateView(0, 0, info, alts)
  \/ DestroyView(0)

(***************************************************************************)
(* SpecFrame: one view, constructed, then bound as a render target frame   *)
(* after frame.                                                            *)
(***************************************************************************)

\* the aspect masks drawn: colour, depth, stencil, depth and stencil
AspectMasks == {1, 2, 4, 6}

\* the view create-infos drawn in SpecSub
SubViewInfos ==
  { ViewInfo(VK_IMAGE_VIEW_TYPE_2D, a, minLevel, numLevels, minLayer, numLayers) :
      a \in AspectMasks,
      minLevel \in 0..MaxLevel, numLevels \in 1..(MaxLevel + 1),
      minLayer \in 0..MaxLayer, numLayers \in 1..(MaxLayer + 1) }

\* the calls so far are no run f, f+1, ...
NoRun == [ok |-> FALSE, first |-> U32Zero, len |-> 0]

\* the frame-tracking history of a view nobody has bound yet
FreshHistory ==
  /\ pre = [id |-> U32Zero, count |-> U32Zero]
  /\ arg = U32Zero
  /\ called = FALSE
  /\ run = [ok |-> TRUE, first |-> U32Zero, len |-> 0]
  /\ hist = << >>

InitFrame ==
  /\ ctorInfo = ViewInfo(VK_IMAGE_VIEW_TYPE_2D, 1, 0, 1, 0, 1)
  /\ fview = DxvkImageView_new(0, 0, FrameImageInfo, ctorInfo, {})
  /\ FreshHistory

InitSub ==
  /\ ctorInfo \in SubViewInfos
  /\ fview = DxvkImageView_new(0, 0, FrameImageInfo, ctorInfo, {})
  /\ FreshHistory

\* view->setRtBindingFrameId(frameId), nothing recorded
BindFrame(frameId) ==
  /\ fview' = setRtBindingFrameId(fview, frameId)
  /\ UNCHANGED <<ctorInfo, pre, arg, called, run, hist, lifeVars, queryVars>>

NextSub == \E frameId \in FrameIds : BindFrame(frameId)

\* view->setRtBindingFrameId(frameId)
SetRtBindingFrameId(frameId) ==
  /\ Len(hist) < MaxCalls
  /\ fview' = setRtBindingFrameId(fview, frameId)
  /\ pre' = [id |-> fview.m_rtBindingFrameId, count |-> fview.m_rtBindingFrameCount]
  /\ arg' = frameId
  /\ called' = TRUE
  /\ run' = IF ~run.ok THEN run
            ELSE IF run.len = 0 THEN [ok |-> TRUE, first |-> frameId, len |-> 1]
            ELSE IF run.len < MaxRun /\ frameId = U32Add(run.first, run.len)
              THEN [run EXCEPT !.len = @ + 1]
              ELSE NoRun
  /\ hist' = IF frameId /= fview.m_rtBindingFrameId
               THEN Append(hist, frameId = U32Inc(fview.m_rtBindingFrameId))
               ELSE hist
  /\ UNCHANGED <<ctorInfo, lifeVars, queryVars>>

NextFrame == \E frameId \in FrameIds : SetRtBindingFrameId(frameId)

(***************************************************************************)
(* SpecQuery: one image, one view of it, and the queries made of them.     *)
(***************************************************************************)

Layouts == 0..MaxLayout

Extents ==
  { [width |-> w, height |-> h, depth |-> d] :
      w \in 1..MaxExtent, h \in 1..MaxExtent, d \in 1..MaxDepth }

\* the image create-infos drawn in SpecQuery: every extent, mip count and
\* format in the layout UNDEFINED, and the one-texel colour image in every layout
QueryImageInfos ==
  { ImageInfo(1, FALSE, f, e, m, 0) : f \in {37, 129}, e \in Extents, m \in 1..MaxMip }
  \cup
  { ImageInfo(1, FALSE, 37, [width |-> 1, height |-> 1, depth |-> 1], 1, l) : l \in Layouts }

InitQuery ==
  /\ \E info \in QueryImageInfos : qimg = RcIncRef(DxvkImage_allocate(0, info))
  /\ qview = DxvkImageView_new(0, 0, qimg.m_info,
                               ViewInfo(VK_IMAGE_VIEW_TYPE_2D, 1, 0, 1, 0, 1), {})
  /\ q = [op |-> "none"]

\* The queries are const member functions: what one answers does not depend on
\* the queries made before it, so a behaviour of SpecQuery makes one query.

\* image->mipLevelExtent(level)
QueryMipLevelExtent(level) ==
  /\ q.op = "none"
  /\ q' = [op |-> "mipLevelExtent", level |-> level, result |-> mipLevelExtent(qimg, level)]
  /\ UNCHANGED <<qimg, qview, lifeVars, frameVars>>

\* image->pickLayout(layout)
QueryPickLayout(layout) ==
  /\ q.op = "none"
  /\ q' = [op |-> "pickLayout", layout |-> layout, result |-> pickLayout(qimg, layout)]
  /\ UNCHANGED <<qimg, qview, lifeVars, frameVars>>

\* view->pickLayout(layout)
QueryViewPickLayout(layout) ==
  /\ q.op = "none"
  /\ q' = [op |-> "viewPickLayout", layout |-> layout,
           result |-> viewPickLayout([i \in {image(qview)} |-> qimg], qview, layout)]
  /\ UNCHANGED <<qimg, qview, lifeVars, frameVars>>

\* image->isFullSubresource(subresource, extent)
QueryIsFullSubresource(subresource, extent) ==
  /\ q.op = "none"
  /\ q' = [op |-> "isFullSubresource", subresource |-> subresource, extent |-> extent,
           result |-> isFullSubresource(qimg, subresource, extent)]
  /\ UNCHANGED <<qimg, qview, lifeVars, frameVars>>

NextQuery ==
  \/ \E level \in 0..qimg.m_info.mipLevels : QueryMipLevelExtent(level)
  \/ \E layout \in Layouts : QueryPickLayout(layout)
  \/ \E layout \in Layouts : QueryViewPickLayout(layout)
  \/ \E a \in AspectMasks, level \in 0..(qimg.m_info.mipLevels - 1), extent \in Extents :
       QueryIsFullSubresource([aspectMask |-> a, mipLevel |-> level], extent)

(***************************************************************************)
(* The specifications.                                                     *)
(***************************************************************************)

\* the variables of SpecFrame while another specification runs
IdleFrame ==
  /\ ctorInfo = ViewInfo(VK_IMAGE_VIEW_TYPE_2D, 1, 0, 1, 0, 1)
  /\ fview = NoView
  /\ pre = [id |-> U32Zero, count |-> U32Zero]
  /\ arg = U32Zero
  /\ called = FALSE
  /\ run = NoRun
  /\ hist = << >>

\* the variables of SpecQuery while another specification runs
IdleQuery ==
  /\ qimg = NoImage
  /\ qview = NoView
  /\ q = [op |-> "none"]

Init == InitLife /\ IdleFrame /\ IdleQuery

Spec == Init /\ [][NextLife]_vars

SpecView == Init /\ [][NextView]_vars

InitFrameSpec == InitFrame /\ InitLife /\ IdleQuery

SpecFrame == InitFrameSpec /\ [][NextFrame]_vars

InitSubSpec == InitSub /\ InitLife /\ IdleQuery

SpecSub == InitSubSpec /\ [][NextSub]_vars

InitQuerySpec == InitQuery /\ InitLife /\ IdleFrame

SpecQuery == InitQuerySpec /\ [][NextQuery]_vars

(***************************************************************************)
(* Claims about frame tracking (SpecFrame) and subresources (SpecSub).     *)
(***************************************************************************)

\* what C1 says of a run of calls f, f+1, ... made on a fresh view: the view is
\* not async-compatible after any of the first five calls, and after the sixth
\* the count is 5 and the view is async-compatible
RunOfSix ==
  /\ run.len <= AsyncFrames => ~getRtBindingAsyncCompilationCompat(fview)
  /\ run.len = AsyncFrames + 1 =>
       /\ fview.m_rtBindingFrameCount = U32Of(AsyncFrames)
       /\ getRtBindingAsyncCompilationCompat(fview)

\* C1 as stated: for any frame id f, the calls f, f+1, ..., f+5 on a fresh view
\* leave the count at 5 after the sixth call, and the view is async-compatible
\* after the sixth call and after none of the first five.
C1_Original == (run.ok /\ run.len >= 1) => RunOfSix

\* C1, amended: the statement holds for every f other than 1.  For f = 1 the
\* first call is itself a +1 step from the initial frame id 0, so the count
\* equals the number of calls: 6 after the sixth call, and the view is
\* async-compatible from the fifth call on.
C1_Amended ==
  (run.ok /\ run.len >= 1) =>
    IF run.first /= U32Of(1)
      THEN RunOfSix
      ELSE /\ fview.m_rtBindingFrameCount = U32Of(run.len)
           /\ getRtBindingAsyncCompilationCompat(fview) <=> run.len >= AsyncFrames

\* six calls f, ..., f+5 were made on the fresh view, f not 1, and the view is
\* async-compatible
C1_Witness ==
  /\ run.ok /\ run.len = AsyncFrames + 1 /\ run.first /= U32Of(1)
  /\ getRtBindingAsyncCompilationCompat(fview)

\* C2: a call setRtBindingFrameId(frameId) leaves both fields as they were when
\* frameId is the last frame id; adds one to the count and stores frameId when
\* frameId is the last frame id plus one; and otherwise clears the count and
\* stores frameId, so that the view is not async-compatible right after it.
C2_Transition ==
  called =>
    IF arg = pre.id
      THEN /\ fview.m_rtBindingFrameId = pre.id
           /\ fview.m_rtBindingFrameCount = pre.count
      ELSE IF arg = U32Inc(pre.id)
        THEN /\ fview.m_rtBindingFrameId = arg
             /\ fview.m_rtBindingFrameCount = U32Inc(pre.count)
        ELSE /\ fview.m_rtBindingFrameId = arg
             /\ fview.m_rtBindingFrameCount = U32Zero
             /\ ~getRtBindingAsyncCompilationCompat(fview)

\* a call skipped a frame or went backwards while the view was async-compatible
C2_Witness ==
  /\ called /\ arg /= pre.id /\ arg /= U32Inc(pre.id)
  /\ U32Geq(pre.count, AsyncFrames)
  /\ fview.m_rtBindingFrameCount = U32Zero

\* the number of +1 transitions at the end of the history
RECURSIVE TrailingPlusOnes(_)
TrailingPlusOnes(h) ==
  IF h = << >> \/ ~h[Len(h)] THEN 0
  ELSE 1 + TrailingPlusOnes(SubSeq(h, 1, Len(h) - 1))

\* C10: whenever the view is async-compatible, the five most recent
\* state-changing calls each passed the last frame id plus one; and the count
\* is the number of +1 transitions since the last reset or since construction.
C10_StableHistory ==
  /\ getRtBindingAsyncCompilationCompat(fview) =>
       /\ Len(hist) >= AsyncFrames
       /\ \A k \in (Len(hist) - AsyncFrames + 1)..Len(hist) : hist[k]
  /\ fview.m_rtBindingFrameCount = U32Of(TrailingPlusOnes(hist))

\* the view is async-compatible after a history that holds a reset
C10_Witness ==
  /\ getRtBindingAsyncCompilationCompat(fview)
  /\ \E k \in 1..Len(hist) : ~hist[k]

\* C8: subresources() gives back the aspect mask, the mip range and the layer
\* range of the create-info the view was constructed with, on the fresh view and
\* after any calls of setRtBindingFrameId.
C8_RoundTrip ==
  subresources(fview) =
    [ aspectMask     |-> ctorInfo.aspect,
      baseMipLevel   |-> ctorInfo.minLevel,
      levelCount     |-> ctorInfo.numLevels,
      baseArrayLayer |-> ctorInfo.minLayer,
      layerCount     |-> ctorInfo.numLayers ]

\* a view whose ranges differ from each other, bound for consecutive frames
C8_Witness ==
  /\ ctorInfo.numLevels /= ctorInfo.numLayers
  /\ ctorInfo.minLevel /= ctorInfo.minLayer
  /\ fview.m_rtBindingFrameCount /= U32Zero
  /\ subresources(fview).levelCount = ctorInfo.numLevels

(***************************************************************************)
(* Claims about the queries (SpecQuery).                                   *)
(***************************************************************************)

\* C5: pickLayout(requested) is the general layout when the image's declared
\* layout is the general layout and requested otherwise, and the view's
\* pickLayout answers as its image's does.
C5_PickLayout ==
  /\ q.op \in {"pickLayout", "viewPickLayout"} =>
       q.result = IF qimg.m_info.layout = VK_IMAGE_LAYOUT_GENERAL
                    THEN VK_IMAGE_LAYOUT_GENERAL ELSE q.layout
  /\ \A layout \in Layouts :
       viewPickLayout([i \in {image(qview)} |-> qimg], qview, layout) = pickLayout(qimg, layout)

\* a general image was asked, through its view, for another layout
C5_Witness ==
  /\ q.op = "viewPickLayout"
  /\ qimg.m_info.layout = VK_IMAGE_LAYOUT_GENERAL
  /\ q.layout /= VK_IMAGE_LAYOUT_GENERAL
  /\ q.result = VK_IMAGE_LAYOUT_GENERAL

\* C6: isFullSubresource(subres, extent) is true exactly when the aspect mask
\* is the full aspect mask of the image's format and the extent equals
\* mipLevelExtent(subres.mipLevel) in width, height and depth.
C6_FullSubresource ==
  q.op = "isFullSubresource" =>
    LET mip == mipLevelExtent(qimg, q.subresource.mipLevel) IN
    q.result <=> /\ q.subresource.aspectMask = formatAspectMask(qimg.m_info.format)
                 /\ q.extent.width = mip.width
                 /\ q.extent.height = mip.height
                 /\ q.extent.depth = mip.depth

\* the depth aspect alone of a depth-stencil image, with the extent of the
\* level, is not a full subresource
C6_Witness ==
  /\ q.op = "isFullSubresource"
  /\ qimg.m_info.format = 129 /\ q.subresource.aspectMask = 2
  /\ q.subresource.mipLevel >= 1
  /\ q.extent = mipLevelExtent(qimg, q.subresource.mipLevel)
  /\ q.extent /= qimg.m_info.extent
  /\ ~q.result

\* c is max(1, b >> level), said without the shift: 1 when b is below 2^level,
\* and otherwise the c with c * 2^level <= b < (c + 1) * 2^level
IsMipSize(c, b, level) ==
  /\ c >= 1
  /\ b < 2 ^ level => c = 1
  /\ b >= 2 ^ level => c * 2 ^ level <= b /\ b < (c + 1) * 2 ^ level

\* C7: for every level up to the declared mip count each component of
\* mipLevelExtent(level) is max(1, base >> level) of its own axis, is at least
\* 1, and does not grow from one level to the next.
C7_MipLevelExtent ==
  /\ q.op = "mipLevelExtent" =>
       /\ IsMipSize(q.result.width,  qimg.m_info.extent.width,  q.level)
       /\ IsMipSize(q.result.height, qimg.m_info.extent.height, q.level)
       /\ IsMipSize(q.result.depth,  qimg.m_info.extent.depth,  q.level)
  /\ \A level \in 0..(qimg.m_info.mipLevels - 1) :
       LET a == mipLevelExtent(qimg, level)
           b == mipLevelExtent(qimg, level + 1) IN
       /\ b.width <= a.width /\ b.height <= a.height /\ b.depth <= a.depth
       /\ b.width >= 1 /\ b.height >= 1 /\ b.depth >= 1

\* level 2 of a 3x4x2 image: width and depth are clamped to 1, height is 4 >> 2
C7_Witness ==
  /\ q.op = "mipLevelExtent"
  /\ q.level >= 2
  /\ q.result.depth = 1 /\ qimg.m_info.extent.depth = 2
  /\ q.result.height = 1 /\ qimg.m_info.extent.height = 4
  /\ q.result.width = 1 /\ qimg.m_info.extent.width = 3

(***************************************************************************)
(* Claims about object lifetime (Spec) and the handle table (SpecView).    *)
(***************************************************************************)

\* C3: the destruction of an image made by the wrap constructor never destroys
\* the native image and never releases memory to the allocator; the destruction
\* of an image made by the allocate constructor does each exactly once.
C3_BorrowedNeverReleased ==
  \A i \in ImageIds :
    /\ (images[i].state /= "none" /\ ~images[i].owning) =>
         destroyCalls[i] = 0 /\ freeCalls[i] = 0
    /\ (images[i].state = "alive" /\ images[i].owning) =>
         destroyCalls[i] = 0 /\ freeCalls[i] = 0
    /\ (images[i].state = "destroyed" /\ images[i].owning) =>
         destroyCalls[i] = 1 /\ freeCalls[i] = 1

\* a wrapped image and an allocated image have both been destroyed
C3_Witness ==
  \E i, j \in ImageIds :
    /\ images[i].state = "destroyed" /\ ~images[i].owning /\ freeCalls[i] = 0
    /\ images[j].state = "destroyed" /\ images[j].owning /\ freeCalls[j] = 1

\* C4: an image is torn down only once its creator has dropped its reference
\* and no view made of it is left; the image and the image handle of every
\* live view are those of an image that was not destroyed.
C4_ViewKeepsImageAlive ==
  /\ \A i \in ImageIds :
       images[i].state = "destroyed" => ~ownerRef[i] /\ ViewsOf(i) = {}
  /\ \A i \in ImageIds :
       (ownerRef[i] \/ ViewsOf(i) /= {}) => destroyCalls[i] = 0 /\ freeCalls[i] = 0
  /\ \A v \in ViewIds :
       views[v].state = "alive" =>
         /\ images[image(views[v])].state = "alive"
         /\ imageHandle(images, views[v]) /= VK_NULL_HANDLE

\* the creator dropped an allocated image that two views still hold
C4_Witness ==
  \E i \in ImageIds :
    /\ images[i].state = "alive" /\ images[i].owning
    /\ ~ownerRef[i]
    /\ Cardinality(ViewsOf(i)) >= 2

\* C9: of a constructed view, handle() is handle(type) for the type of its
\* create-info and is not null; handle(type) is null for every type that was
\* not constructed for the view or that the image does not admit; and asking
\* for an alternate type the image does not admit does not fail the view.
C9_HandleTable ==
  \A v \in ViewIds :
    /\ views[v].state = "alive" =>
         /\ handle(views[v]) = handleOfType(views[v], views[v].ctorType)
         /\ handle(views[v]) /= VK_NULL_HANDLE
         /\ \A t \in ViewTypes :
              (t \notin views[v].requested
                 \/ ~ViewCompatible(images[image(views[v])].m_info, t))
                => handleOfType(views[v], t) = VK_NULL_HANDLE
    /\ views[v].state = "failed" =>
         ~ViewCompatible(images[image(views[v])].m_info, views[v].ctorType)

\* a live cube view that was also asked for a type its image does not admit
C9_Witness ==
  \E v \in ViewIds :
    /\ views[v].state = "alive"
    /\ views[v].ctorType = 3
    /\ \E t \in views[v].requested :
         ~ViewCompatible(images[image(views[v])].m_info, t)
    /\ handle(views[v]) /= VK_NULL_HANDLE

====
